---- MODULE Spec2Model ----
(***************************************************************************)
(* Model of src/server.js (Diamondszone/lockdown-etc): the URL validation  *)
(* engine.  The file holds three successive versions of the server; this   *)
(* development models the success/failed store version (lines 417-961):    *)
(* the classifier (isJson, isCaptcha), the fetcher's result shape, the     *)
(* per-URL pipeline checkUrl, the result store (addToDatabase,             *)
(* resetDatabase), and the scheduler (parseList, mainLoop).                *)
(*                                                                         *)
(* JavaScript runs the handlers on one thread: a handler runs to its next  *)
(* await without interruption, so every action below is one such segment.  *)
(* Wall-clock fields (timestamp, startTime, lastProcessed) decide nothing  *)
(* in the code and are left out of the records.                            *)
(*                                                                         *)
(* SpecStore drives the store alone (addToDatabase, resetDatabase); Spec   *)
(* runs concurrent checkUrl calls against it, with resets in between;      *)
(* SpecLoop runs the scheduler mainLoop with its workers, and SpecLive is  *)
(* SpecLoop under the fairness of the run time's scheduling.               *)
(* Spec1 and Spec3 run hitUrl of the two other versions in the file, the   *)
(* three-set store (lines 1-414) and the results array (lines 963-1158).   *)
(***************************************************************************)
EXTENDS Integers, Sequences, FiniteSets, TLC

\* ------------------------------------------------------------------ bounds
\* History cap of the model; the program's MAX_HISTORY is 1000 (line 445).
MAX_HISTORY == 2
\* Direct addToDatabase calls between two resets (SpecStore).
MaxCalls == 4
\* checkUrl invocations started or recorded between two resets (Spec).
MaxChecks == 2
\* Concurrent workers of the model; the program's WORKERS is 20 (line 730).
NumWorkers == 2

Workers == 1..NumWorkers
URLS == {"http://a.test", "http://b.test"}

\* --------------------------------------------------- JavaScript values
\* A JavaScript value that is a string, null or undefined (resp.text,
\* resp.error, the error details).  A string is a sequence of characters.
Undefined == [kind |-> "undefined", v |-> <<>>]
Null == [kind |-> "null", v |-> <<>>]
Str(s) == [kind |-> "string", v |-> s]
\* JavaScript truthiness of such a value: !body, text ? a : b.
Truthy(x) == x.kind = "string" /\ Len(x.v) > 0

\* ------------------------------------------------------------ characters
UpperCase == <<"A","B","C","D","E","F","G","H","I","J","K","L","M",
               "N","O","P","Q","R","S","T","U","V","W","X","Y","Z">>
LowerCase == <<"a","b","c","d","e","f","g","h","i","j","k","l","m",
               "n","o","p","q","r","s","t","u","v","w","x","y","z">>
toLowerChar(c) ==
  IF \E i \in 1..26 : UpperCase[i] = c
  THEN LowerCase[CHOOSE i \in 1..26 : UpperCase[i] = c]
  ELSE c
toLowerCase(t) == [i \in 1..Len(t) |-> toLowerChar(t[i])]
includes(t, m) ==
  \E i \in 1..(Len(t) - Len(m) + 1) : SubSeq(t, i, i + Len(m) - 1) = m

\* ---------------------------------------------------------- JSON.parse
\* A recogniser of the JSON grammar (RFC 8259), as JSON.parse accepts it:
\* each Parse* operator returns the index after what it read, 0 on failure.
At(s, i) == IF i >= 1 /\ i <= Len(s) THEN s[i] ELSE "EOF"
IsDigit(c) == c \in {"0","1","2","3","4","5","6","7","8","9"}
IsHex(c) == IsDigit(c) \/ c \in {"a","b","c","d","e","f","A","B","C","D","E","F"}
IsWs(c) == c \in {" ", "\t", "\n", "\r"}

RECURSIVE SkipWs(_, _)
SkipWs(s, i) == IF IsWs(At(s, i)) THEN SkipWs(s, i + 1) ELSE i

RECURSIVE SkipDigits(_, _)
SkipDigits(s, i) == IF IsDigit(At(s, i)) THEN SkipDigits(s, i + 1) ELSE i

ParseExp(s, i) ==
  IF At(s, i) \in {"e", "E"}
  THEN LET k == IF At(s, i + 1) \in {"+", "-"} THEN i + 2 ELSE i + 1
       IN  IF IsDigit(At(s, k)) THEN SkipDigits(s, k) ELSE 0
  ELSE i

ParseFrac(s, i) ==
  IF At(s, i) = "."
  THEN IF IsDigit(At(s, i + 1)) THEN ParseExp(s, SkipDigits(s, i + 1)) ELSE 0
  ELSE ParseExp(s, i)

ParseNumber(s, i) ==
  LET j == IF At(s, i) = "-" THEN i + 1 ELSE i
  IN  IF At(s, j) = "0" THEN ParseFrac(s, j + 1)
      ELSE IF IsDigit(At(s, j)) THEN ParseFrac(s, SkipDigits(s, j))
      ELSE 0

RECURSIVE StringEnd(_, _)
StringEnd(s, j) ==
  LET c == At(s, j)
  IN  IF c = "EOF" \/ c \in {"\t", "\n", "\r"} THEN 0
      ELSE IF c = "\"" THEN j + 1
      ELSE IF c = "\\"
           THEN IF At(s, j + 1) \in {"\"", "\\", "/", "b", "f", "n", "r", "t"}
                THEN StringEnd(s, j + 2)
                ELSE IF At(s, j + 1) = "u"
                        /\ \A k \in 2..5 : IsHex(At(s, j + k))
                     THEN StringEnd(s, j + 6)
                     ELSE 0
           ELSE StringEnd(s, j + 1)

ParseString(s, i) == IF At(s, i) = "\"" THEN StringEnd(s, i + 1) ELSE 0

ParseLiteral(s, i, lit) ==
  IF i + Len(lit) - 1 <= Len(s) /\ SubSeq(s, i, i + Len(lit) - 1) = lit
  THEN i + Len(lit)
  ELSE 0

RECURSIVE ParseValue(_, _)
RECURSIVE ParseElements(_, _)
RECURSIVE ParseMembers(_, _)

ParseValue(s, i) ==
  LET j == SkipWs(s, i)
      c == At(s, j)
  IN  IF c = "{"
      THEN LET k == SkipWs(s, j + 1)
           IN  IF At(s, k) = "}" THEN k + 1 ELSE ParseMembers(s, k)
      ELSE IF c = "["
      THEN LET k == SkipWs(s, j + 1)
           IN  IF At(s, k) = "]" THEN k + 1 ELSE ParseElements(s, k)
      ELSE IF c = "\"" THEN ParseString(s, j)
      ELSE IF c = "t" THEN ParseLiteral(s, j, <<"t","r","u","e">>)
      ELSE IF c = "f" THEN ParseLiteral(s, j, <<"f","a","l","s","e">>)
      ELSE IF c = "n" THEN ParseLiteral(s, j, <<"n","u","l","l">>)
      ELSE IF c = "-" \/ IsDigit(c) THEN ParseNumber(s, j)
      ELSE 0

ParseElements(s, i) ==
  LET v == ParseValue(s, i)
      k == SkipWs(s, v)
  IN  IF v = 0 THEN 0
      ELSE IF At(s, k) = "," THEN ParseElements(s, k + 1)
      ELSE IF At(s, k) = "]" THEN k + 1
      ELSE 0

ParseMembers(s, i) ==
  LET k  == SkipWs(s, i)
      ke == ParseString(s, k)
      c  == SkipWs(s, ke)
      v  == ParseValue(s, c + 1)
      e  == SkipWs(s, v)
  IN  IF ke = 0 \/ At(s, c) # ":" \/ v = 0 THEN 0
      ELSE IF At(s, e) = "," THEN ParseMembers(s, e + 1)
      ELSE IF At(s, e) = "}" THEN e + 1
      ELSE 0

\* JSON.parse(body) returns without throwing.
JSONparse(s) ==
  LET v == ParseValue(s, 1)
  IN  v # 0 /\ SkipWs(s, v) = Len(s) + 1

\* ------------------------------------------------------------ classifier
isJson(body) ==
  IF ~Truthy(body) THEN FALSE ELSE JSONparse(body.v)

CaptchaMarkers ==
  { <<"c","a","p","t","c","h","a">>,
    <<"v","e","r","i","f","y"," ","y","o","u"," ","a","r","e"," ",
      "h","u","m","a","n">>,
    <<"v","e","r","i","f","i","c","a","t","i","o","n">>,
    <<"r","o","b","o","t">>,
    <<"c","l","o","u","d","f","l","a","r","e">> }

isCaptcha(body) ==
  IF ~Truthy(body) THEN FALSE
  ELSE LET t == toLowerCase(body.v)
       IN  \E m \in CaptchaMarkers : includes(t, m)

\* --------------------------------------------------------------- fetcher
\* What fetchText resolves to.  axios is asked for responseType "text" and
\* any status counts as a response, so a completed request yields
\* {ok: true, text: resp.data}; a thrown error yields {ok: false, error}.
fetchTextOk(data) == [ok |-> TRUE, text |-> Str(data), error |-> Undefined]
fetchTextErr(message) == [ok |-> FALSE, text |-> Undefined, error |-> Str(message)]

\* Response bodies the network may deliver.
BodyJson        == <<"{", "\"", "a", "\"", ":", "1", "}">>
BodyJsonCaptcha == <<"\"", "R", "o", "b", "o", "t", "\"">>
BodyHtmlCaptcha == <<"<", "b", ">", "c", "a", "p", "t", "c", "h", "a">>
BodyPlain       == <<"h", "i">>
BodyEmpty       == <<>>
Bodies == {BodyJson, BodyJsonCaptcha, BodyHtmlCaptcha, BodyPlain, BodyEmpty}
\* Error messages of axios (e.message), each one token.
ErrTimeout == <<"timeout of 20000ms exceeded">>
ErrRefused == <<"connect ECONNREFUSED">>

\* What the direct fetch and the proxied fetch of a check may resolve to: any
\* body, or a failure (the target timing out, the proxy refusing).
DirectResponses ==
  {fetchTextOk(b) : b \in Bodies} \cup {fetchTextErr(ErrTimeout)}
ProxyResponses ==
  {fetchTextOk(b) : b \in Bodies \ {BodyHtmlCaptcha}}
    \cup {fetchTextErr(ErrRefused)}
Responses == DirectResponses \cup ProxyResponses
\* The smaller set the direct store calls of SpecStore are built from.
StoreResponses ==
  {fetchTextOk(BodyJson), fetchTextErr(ErrTimeout)}
\* The proxied fetch of a check that has not made one.
NoFetch == [ok |-> FALSE, text |-> Undefined, error |-> Undefined]

\* ----------------------------------------------------------------- state
VARIABLES
  urlDatabase,        \* [all: Seq, success, failed, pending: sets of URLs]
  successDetails,     \* the Map url -> [method, responseSize]
  processingHistory,  \* newest first
  stats,              \* the counters and successRate
  wk,                 \* per worker: where its checkUrl call stands
  lastCheck,          \* history variable: the fetches of the check recorded
                      \*   last since the last reset
  verdictLog,         \* history variable: every verdict since the last reset
  lastOp,             \* history variable: the last operation on the store,
                      \*   for a reset the totalProcessed it wiped, for a
                      \*   verdict the operation that came before it
  v1,                 \* the three-set version (lines 1-414): its urlDatabase,
                      \*   processingHistory and stats
  results,            \* the results-array version (lines 963-1158): results
  loop                \* mainLoop: where it is (pc), urls and current of the
                      \*   batch, and as history the list response (src) and
                      \*   the positions claimed, in order, with the worker

vars == <<urlDatabase, successDetails, processingHistory, stats, wk,
          lastCheck, verdictLog, lastOp, loop, v1, results>>
\* The state of the two other versions of the server in the file.
variantVars == <<v1, results>>
storeVars == <<urlDatabase, successDetails, processingHistory, stats>>

Range(s) == {s[i] : i \in 1..Len(s)}

\* A worker outside checkUrl, and the history variable before any check.
Idle == [pc |-> "idle", url |-> "", direct |-> NoFetch]
\* A worker whose hitUrl call has returned and whose loop has yet to go on.
Returned == [pc |-> "returned", url |-> "", direct |-> NoFetch]
\* mainLoop before it is started.
LoopOff ==
  [pc |-> "off", urls |-> << >>, current |-> 0, claimed |-> << >>,
   src |-> NoFetch]
NoCheck == [url |-> "", direct |-> NoFetch, proxied |-> NoFetch]

\* stats.successRate is the number 0 or the string toFixed(2) returns.
NumberZero == [type |-> "number", val |-> "0"]
TwoDigits(n) == IF n < 10 THEN "0" \o ToString(n) ELSE ToString(n)
\* ((num / den) * 100).toFixed(2): the percentage rounded to hundredths.
toFixed2(num, den) ==
  LET h == (2 * num * 10000 + den) \div (2 * den)
  IN  [type |-> "string",
       val  |-> ToString(h \div 100) \o "." \o TwoDigits(h % 100)]

EmptyDatabase == [all |-> <<>>, success |-> {}, failed |-> {}, pending |-> {}]
ZeroStats ==
  [totalProcessed |-> 0, success |-> 0, failed |-> 0, directSuccess |-> 0,
   proxySuccess |-> 0, uniqueUrls |-> 0, successRate |-> NumberZero]

\* The three-set version: urlDatabase (lines 19-25), processingHistory
\* (line 27) and stats (lines 31-40) at start.
EmptyDatabase1 ==
  [all |-> <<>>, direct |-> {}, proxy |-> {}, failed |-> {}, pending |-> {}]
ZeroStats1 ==
  [totalProcessed |-> 0, directSuccess |-> 0, proxySuccess |-> 0, failed |-> 0,
   uniqueUrls |-> 0, successRate |-> NumberZero]
EmptyStore1 ==
  [urlDatabase |-> EmptyDatabase1, processingHistory |-> << >>,
   stats |-> ZeroStats1]

\* ------------------------------------------------------- addToDatabase
\* Mutant: the URL is never pushed.
AllAfterNoPush(all, url) ==
  all

\* Mutant: the URL is pushed without the includes test.
AllAfterAlwaysPush(all, url) ==
  Append(all, url)

\* lines 596-599: push the URL when urlDatabase.all does not include it.
AllAfter(all, url) ==
  IF url \in Range(all) THEN all ELSE Append(all, url)

\* Mutant: the verdict leaves the URL in pending (line 602 lost).
CategoriesAfterKeepPending(db, url, status) ==
  [all     |-> AllAfter(db.all, url),
   pending |-> db.pending,
   success |-> IF status = "success" THEN db.success \cup {url}
               ELSE IF status = "failed" THEN db.success \ {url}
               ELSE db.success,
   failed  |-> IF status = "success" THEN db.failed \ {url}
               ELSE IF status = "failed" THEN db.failed \cup {url}
               ELSE db.failed]

\* Mutant: a success no longer deletes the URL from failed (line 607 lost).
CategoriesAfterKeepFailed(db, url, status) ==
  [all     |-> AllAfter(db.all, url),
   pending |-> db.pending \ {url},
   success |-> IF status = "success" THEN db.success \cup {url}
               ELSE IF status = "failed" THEN db.success \ {url}
               ELSE db.success,
   failed  |-> IF status = "failed" THEN db.failed \cup {url} ELSE db.failed]

\* lines 602-628: pending.delete, then the category sets by status.
CategoriesAfter(db, url, status) ==
  [all     |-> AllAfter(db.all, url),
   pending |-> db.pending \ {url},
   success |-> IF status = "success" THEN db.success \cup {url}
               ELSE IF status = "failed" THEN db.success \ {url}
               ELSE db.success,
   failed  |-> IF status = "success" THEN db.failed \ {url}
               ELSE IF status = "failed" THEN db.failed \cup {url}
               ELSE db.failed]

\* Mutant: a failure leaves the success detail in place (line 626 lost).
DetailsAfterNoDelete(sd, url, status, method, details) ==
  IF status = "success"
  THEN [u \in DOMAIN sd \cup {url} |->
          IF u = url
          THEN [method |-> details.method, responseSize |-> details.responseSize]
          ELSE sd[u]]
  ELSE sd

\* Mutant: a success keeps the detail entry the URL already has (set only
\* when the map has no entry).
DetailsAfterKeepFirst(sd, url, status, method, details) ==
  IF status = "success"
  THEN [u \in DOMAIN sd \cup {url} |->
          IF u = url /\ u \notin DOMAIN sd
          THEN [method |-> details.method, responseSize |-> details.responseSize]
          ELSE sd[u]]
  ELSE IF status = "failed"
  THEN [u \in DOMAIN sd \ {url} |-> sd[u]]
  ELSE sd

\* lines 610-614 and 626: successDetails.set / successDetails.delete.
\* {method, timestamp, ...details}: the method of details overrides.
DetailsAfter(sd, url, status, method, details) ==
  IF status = "success"
  THEN [u \in DOMAIN sd \cup {url} |->
          IF u = url
          THEN [method |-> details.method, responseSize |-> details.responseSize]
          ELSE sd[u]]
  ELSE IF status = "failed"
  THEN [u \in DOMAIN sd \ {url} |-> sd[u]]
  ELSE sd

\* Mutant: the entry is pushed at the end, and the cap drops the front.
HistoryAfterPush(history, entry) ==
  LET h == history \o <<entry>>
  IN  IF Len(h) > MAX_HISTORY THEN SubSeq(h, 2, Len(h)) ELSE h

\* Mutant: the cap keeps the oldest entries, slice(-MAX_HISTORY) on a push.
HistoryAfterKeepOldest(history, entry) ==
  LET h == <<entry>> \o history
  IN  IF Len(h) > MAX_HISTORY THEN SubSeq(h, 2, Len(h)) ELSE h

\* lines 631-642: unshift the entry, then slice(0, MAX_HISTORY).
HistoryAfter(history, entry) ==
  LET h == <<entry>> \o history
  IN  IF Len(h) > MAX_HISTORY THEN SubSeq(h, 1, MAX_HISTORY) ELSE h

\* Mutant: the method counters are swapped (direct counted as proxy).
StatsAfterSwapped(st, db, url, status, method) ==
  LET isS == status = "success"
      isF == status = "failed"
      s2  == IF isS THEN st.success + 1 ELSE st.success
      f2  == IF isF THEN st.failed + 1 ELSE st.failed
      totalAttempts == s2 + f2
  IN  [totalProcessed |-> st.totalProcessed + 1,
       success        |-> s2,
       failed         |-> f2,
       directSuccess  |-> IF isS /\ method = "proxy"
                          THEN st.directSuccess + 1 ELSE st.directSuccess,
       proxySuccess   |-> IF isS /\ method = "direct"
                          THEN st.proxySuccess + 1 ELSE st.proxySuccess,
       uniqueUrls     |-> IF url \in Range(db.all) THEN st.uniqueUrls
                          ELSE Len(AllAfter(db.all, url)),
       successRate    |-> IF totalAttempts > 0 THEN toFixed2(s2, totalAttempts)
                          ELSE NumberZero]

\* Mutant: a repeated verdict for a URL already known is not counted.
StatsAfterOncePerUrl(st, db, url, status, method) ==
  IF url \in Range(db.all) THEN st
  ELSE [st EXCEPT !.totalProcessed = @ + 1,
                  !.success = IF status = "success" THEN @ + 1 ELSE @,
                  !.failed = IF status = "failed" THEN @ + 1 ELSE @,
                  !.directSuccess = IF status = "success" /\ method = "direct"
                                    THEN @ + 1 ELSE @,
                  !.proxySuccess = IF status = "success" /\ method = "proxy"
                                   THEN @ + 1 ELSE @,
                  !.uniqueUrls = Len(AllAfter(db.all, url)),
                  !.successRate =
                     toFixed2(IF status = "success" THEN st.success + 1
                              ELSE st.success,
                              st.success + st.failed + 1)]

\* Mutant: a proxy success is not counted in stats.success.
StatsAfterProxyUncounted(st, db, url, status, method) ==
  LET isS == status = "success"
      isF == status = "failed"
      s2  == IF isS /\ method = "direct" THEN st.success + 1 ELSE st.success
      f2  == IF isF THEN st.failed + 1 ELSE st.failed
      totalAttempts == s2 + f2
  IN  [totalProcessed |-> st.totalProcessed + 1,
       success        |-> s2,
       failed         |-> f2,
       directSuccess  |-> IF isS /\ method = "direct"
                          THEN st.directSuccess + 1 ELSE st.directSuccess,
       proxySuccess   |-> IF isS /\ method # "direct" /\ method = "proxy"
                          THEN st.proxySuccess + 1 ELSE st.proxySuccess,
       uniqueUrls     |-> IF url \in Range(db.all) THEN st.uniqueUrls
                          ELSE Len(AllAfter(db.all, url)),
       successRate    |-> IF totalAttempts > 0 THEN toFixed2(s2, totalAttempts)
                          ELSE NumberZero]

\* lines 598, 616-627, 645-648: the counters.
StatsAfter(st, db, url, status, method) ==
  LET isS == status = "success"
      isF == status = "failed"
      s2  == IF isS THEN st.success + 1 ELSE st.success
      f2  == IF isF THEN st.failed + 1 ELSE st.failed
      totalAttempts == s2 + f2
  IN  [totalProcessed |-> st.totalProcessed + 1,
       success        |-> s2,
       failed         |-> f2,
       directSuccess  |-> IF isS /\ method = "direct"
                          THEN st.directSuccess + 1 ELSE st.directSuccess,
       proxySuccess   |-> IF isS /\ method # "direct" /\ method = "proxy"
                          THEN st.proxySuccess + 1 ELSE st.proxySuccess,
       uniqueUrls     |-> IF url \in Range(db.all) THEN st.uniqueUrls
                          ELSE Len(AllAfter(db.all, url)),
       successRate    |-> IF totalAttempts > 0 THEN toFixed2(s2, totalAttempts)
                          ELSE NumberZero]

HistoryEntry(url, status, method, details) ==
  [url |-> url, status |-> status, method |-> method, details |-> details]

\* The whole of addToDatabase(url, status, method, details), lines 592-649.
addToDatabase(url, status, method, details) ==
  /\ urlDatabase' = CategoriesAfter(urlDatabase, url, status)
  /\ successDetails' = DetailsAfter(successDetails, url, status, method, details)
  /\ processingHistory' =
       HistoryAfter(processingHistory, HistoryEntry(url, status, method, details))
  /\ stats' = StatsAfter(stats, urlDatabase, url, status, method)
  /\ verdictLog' = <<HistoryEntry(url, status, method, details)>> \o verdictLog
  /\ lastOp' = [op |-> "addToDatabase", before |-> 0, prev |-> lastOp.op]
  /\ UNCHANGED variantVars

\* Mutant: the reset recomputes the rate as toFixed does, a string.
ResetStoreRateString ==
  /\ urlDatabase' = EmptyDatabase
  /\ successDetails' = << >>
  /\ processingHistory' = << >>
  /\ stats' = [ZeroStats EXCEPT !.successRate = [type |-> "string", val |-> "0.00"]]

\* The assignments of resetDatabase(), lines 699-721.
ResetStore ==
  /\ urlDatabase' = EmptyDatabase
  /\ successDetails' = << >>
  /\ processingHistory' = << >>
  /\ stats' = ZeroStats

\* Mutant: the reset also abandons the checks in flight.
resetDatabaseStopsChecks ==
  /\ ResetStore
  /\ verdictLog' = << >>
  /\ lastCheck' = NoCheck
  /\ lastOp' = [op |-> "resetDatabase", before |-> stats.totalProcessed,
                 prev |-> ""]
  /\ wk' = [w \in Workers |-> Idle]
  /\ UNCHANGED loop
  /\ UNCHANGED variantVars

\* resetDatabase() as POST /api/reset calls it (line 935).
resetDatabase ==
  /\ ResetStore
  /\ verdictLog' = << >>
  /\ lastCheck' = NoCheck
  /\ lastOp' = [op |-> "resetDatabase", before |-> stats.totalProcessed,
                 prev |-> ""]
  /\ UNCHANGED <<wk, loop>>
  /\ UNCHANGED variantVars

\* ------------------------------------------------------------- checkUrl
\* The classifier's answers on the texts a response can carry, computed once.
Texts == {r.text : r \in Responses \cup {NoFetch}}
captchaOf == [t \in Texts |-> isCaptcha(t)]
jsonOf == [t \in Texts |-> isJson(t)]

\* Mutant: the captcha test is dropped from the success condition.
JsonOkNoCaptcha(resp) == resp.ok /\ jsonOf[resp.text]

\* line 530 / 553-554: ok && !isCaptcha(text) && isJson(text).
JsonOk(resp) == resp.ok /\ ~captchaOf[resp.text] /\ jsonOf[resp.text]

\* lines 543-546 and 567-570: the details of a success.
successArgs(resp, method) ==
  [status |-> "success", method |-> method,
   details |-> [responseSize |-> Len(resp.text.v), method |-> method]]

\* Mutant: a completed fetch never gets the "Not JSON" message.
ErrorOfNull(resp) ==
  IF ~resp.ok THEN resp.error ELSE Null

\* One side of errorDetails, lines 581-582.
ErrorOf(resp) ==
  IF ~resp.ok THEN resp.error
  ELSE IF Truthy(resp.text) THEN Str(<<"Not JSON or Captcha">>)
  ELSE Null

\* One captcha flag of errorDetails, lines 583-584.
CaptchaOf(resp) ==
  IF Truthy(resp.text) THEN captchaOf[resp.text] ELSE FALSE

\* Mutant: the two error fields are filled from the wrong fetch.
failedArgsSwapped(direct, proxied) ==
  [status |-> "failed", method |-> "null",
   details |-> [directError   |-> ErrorOf(proxied),
                proxyError    |-> ErrorOf(direct),
                directCaptcha |-> CaptchaOf(direct),
                proxyCaptcha  |-> CaptchaOf(proxied)]]

\* lines 580-587: the arguments of the failed call.
failedArgs(direct, proxied) ==
  [status |-> "failed", method |-> "null",
   details |-> [directError   |-> ErrorOf(direct),
                proxyError    |-> ErrorOf(proxied),
                directCaptcha |-> CaptchaOf(direct),
                proxyCaptcha  |-> CaptchaOf(proxied)]]

\* Mutant: a proxy success is recorded with the method of the first attempt.
VerdictArgsAlwaysDirect(direct, proxied) ==
  IF JsonOk(direct) THEN successArgs(direct, "direct")
  ELSE IF JsonOk(proxied) THEN successArgs(proxied, "direct")
  ELSE failedArgs(direct, proxied)

\* The addToDatabase call checkUrl makes for a direct and a proxied response
\* (the proxied one is not fetched when the direct one is JSON).
VerdictArgs(direct, proxied) ==
  IF JsonOk(direct) THEN successArgs(direct, "direct")
  ELSE IF JsonOk(proxied) THEN successArgs(proxied, "proxy")
  ELSE failedArgs(direct, proxied)

Init ==
  /\ urlDatabase = EmptyDatabase
  /\ successDetails = << >>
  /\ processingHistory = << >>
  /\ stats = ZeroStats
  /\ wk = [w \in Workers |-> Idle]
  /\ lastCheck = NoCheck
  /\ verdictLog = << >>
  /\ lastOp = [op |-> "none", before |-> 0, prev |-> ""]
  /\ loop = LoopOff
  /\ v1 = EmptyStore1
  /\ results = << >>

\* ------------------------------------------------------------- SpecStore
\* The store driven directly: any sequence of the addToDatabase calls that
\* checkUrl can make, and of resets.
StoreCalls ==
  {VerdictArgs(d, p) : d \in StoreResponses, p \in StoreResponses}

recordOutcome(url, a) ==
  /\ stats.totalProcessed < MaxCalls
  /\ addToDatabase(url, a.status, a.method, a.details)
  /\ UNCHANGED <<wk, lastCheck, loop>>

NextStore ==
  \/ \E u \in URLS, a \in StoreCalls : recordOutcome(u, a)
  \/ resetDatabase

SpecStore == Init /\ [][NextStore]_vars

\* ------------------------------------------------------------------ Spec
\* The pipeline: workers call hitUrl -> checkUrl, the fetches resolve in any
\* order, and POST /api/reset may arrive between any two segments.
InFlight == Cardinality({w \in Workers : wk[w].pc \in {"direct", "proxy"}})

\* lines 514-529: checkUrl up to its first await, for a worker.
Checking(url) ==
  [pc |-> "direct", url |-> url, direct |-> NoFetch]

\* lines 724-725, 514-529: mark the URL pending and start the direct fetch.
\* The workers run the same code, so the call goes to the first idle one.
hitUrl(w, url) ==
  /\ wk[w].pc = "idle"
  /\ \A v \in Workers : v < w => wk[v].pc # "idle"
  /\ stats.totalProcessed + InFlight < MaxChecks
  /\ urlDatabase' = [urlDatabase EXCEPT !.pending = @ \cup {url}]
  /\ wk' = [wk EXCEPT ![w] = Checking(url)]
  /\ lastOp' = [op |-> "checkUrl", before |-> 0, prev |-> ""]
  /\ UNCHANGED <<successDetails, processingHistory, stats, lastCheck, verdictLog,
                 loop>>
  /\ UNCHANGED variantVars

\* The call checkUrl makes once both responses are in, and its return.
recordVerdict(w, direct, proxied) ==
  LET a == VerdictArgs(direct, proxied)
  IN  /\ addToDatabase(wk[w].url, a.status, a.method, a.details)
      /\ lastCheck' = [url |-> wk[w].url, direct |-> direct, proxied |-> proxied]
      /\ wk' = [wk EXCEPT ![w] = IF loop.pc = "off" THEN Idle ELSE Returned]
      /\ UNCHANGED loop

\* Mutant: a direct success returns without the addToDatabase call.
directResolvedUnrecorded(w, resp) ==
  /\ wk[w].pc = "direct"
  /\ IF JsonOk(resp)
     THEN /\ wk' = [wk EXCEPT ![w] = IF loop.pc = "off" THEN Idle ELSE Returned]
          /\ UNCHANGED <<storeVars, lastCheck, verdictLog, lastOp, loop>>
     ELSE /\ wk' = [wk EXCEPT ![w] = [@ EXCEPT !.pc = "proxy", !.direct = resp]]
          /\ UNCHANGED <<storeVars, lastCheck, verdictLog, lastOp, loop>>
  /\ UNCHANGED variantVars

\* lines 529-552: the direct fetch resolves with resp.
directResolved(w, resp) ==
  /\ wk[w].pc = "direct"
  /\ IF JsonOk(resp)
     THEN recordVerdict(w, resp, NoFetch)
     ELSE /\ wk' = [wk EXCEPT ![w] = [@ EXCEPT !.pc = "proxy", !.direct = resp]]
          /\ UNCHANGED <<storeVars, lastCheck, verdictLog, lastOp, loop>>
  /\ UNCHANGED variantVars

\* lines 552-588: the proxied fetch resolves with resp.
proxyResolved(w, resp) ==
  /\ wk[w].pc = "proxy"
  /\ recordVerdict(w, wk[w].direct, resp)

Next ==
  \/ \E w \in Workers, u \in URLS : hitUrl(w, u)
  \/ \E w \in Workers, r \in DirectResponses : directResolved(w, r)
  \/ \E w \in Workers, r \in ProxyResponses : proxyResolved(w, r)
  \/ resetDatabase

Spec == Init /\ [][Next]_vars

\* -------------------------------------------------------------- mainLoop
\* The scheduler, lines 729-771.  The list text is a sequence of tokens: a
\* URL is one token, the others are single white-space characters.
\* Checks started or recorded between two resets (SpecLoop): the counters of
\* the program are unbounded, the model stops starting checks at this many.
MaxLoopChecks == 3

ListUrlA == "http://a.test"
ListUrlB == "http://b.test"

\* txt.split(/\r?\n/): the lines of the text, a "\r" before a "\n" dropped.
RECURSIVE split(_)
split(txt) ==
  IF \A i \in 1..Len(txt) : txt[i] # "\n" THEN <<txt>>
  ELSE LET i == CHOOSE k \in 1..Len(txt) :
                  txt[k] = "\n" /\ \A j \in 1..(k - 1) : txt[j] # "\n"
           e == IF i > 1 /\ txt[i - 1] = "\r" THEN i - 2 ELSE i - 1
       IN  <<SubSeq(txt, 1, e)>> \o split(SubSeq(txt, i + 1, Len(txt)))

\* s.trim(): white space off both ends.
RECURSIVE trimStart(_)
trimStart(s) == IF s # << >> /\ IsWs(Head(s)) THEN trimStart(Tail(s)) ELSE s
RECURSIVE trimEnd(_)
trimEnd(s) ==
  IF s # << >> /\ IsWs(s[Len(s)]) THEN trimEnd(SubSeq(s, 1, Len(s) - 1)) ELSE s
trim(s) == trimEnd(trimStart(s))

\* The string a line of tokens spells.
RECURSIVE join(_)
join(s) == IF s = << >> THEN "" ELSE Head(s) \o join(Tail(s))

\* Mutant: the lines are not trimmed.
parseListNoTrim(txt) ==
  LET text  == IF Truthy(txt) THEN txt.v ELSE << >>
      lines == split(text)
      strs  == [i \in 1..Len(lines) |-> join(lines[i])]
  IN  SelectSeq(strs, LAMBDA s : s # "")

\* lines 460-465: (txt || "").split(/\r?\n/).map(trim).filter(Boolean).
parseList(txt) ==
  LET text  == IF Truthy(txt) THEN txt.v ELSE << >>
      lines == split(text)
      strs  == [i \in 1..Len(lines) |-> join(trim(lines[i]))]
  IN  SelectSeq(strs, LAMBDA s : s # "")

\* What the fetch of SOURCE_URL may resolve to.
ListBlank == <<" ", "\r", "\n", "\n", "\t">>
ListOne   == <<" ", ListUrlB, " ", "\r", "\n">>
ListThree == <<ListUrlA, "\n", ListUrlB, "\r", "\n", "\n", ListUrlA>>
SourceResponses ==
  {fetchTextErr(ErrTimeout), fetchTextOk(BodyEmpty), fetchTextOk(ListBlank),
   fetchTextOk(ListOne), fetchTextOk(ListThree)}

\* Mutant: the cursor is advanced before the read, urls[++current].
ClaimPreIncrement(urls, current) ==
  [url  |-> IF current + 2 \in DOMAIN urls THEN urls[current + 2] ELSE "",
   pos  |-> current + 1,
   next |-> current + 1]

\* line 750: u = urls[current++].  Past the end u is undefined, which line
\* 751 treats like the empty string; pos is the index that was read.
Claim(urls, current) ==
  [url  |-> IF current + 1 \in DOMAIN urls THEN urls[current + 1] ELSE "",
   pos  |-> current,
   next |-> current + 1]

\* lines 749-753, 514-529: worker w from the top of its loop to its next
\* await, on st = [wk, current, claimed, pending]: it claims a position and
\* either breaks or enters checkUrl, which marks the URL pending and starts
\* the direct fetch.
WorkerSegment(st, urls, w) ==
  LET c == Claim(urls, st.current)
  IN  IF c.url = ""
      THEN [st EXCEPT !.wk[w] = Idle, !.current = c.next]
      ELSE [wk      |-> [st.wk EXCEPT ![w] = Checking(c.url)],
            current |-> c.next,
            claimed |-> Append(st.claimed, [pos |-> c.pos, by |-> w]),
            pending |-> st.pending \cup {c.url}]

\* lines 755-759: the for loop calls worker() for each worker in turn; each
\* call runs to its first await before the next is made.
RECURSIVE StartWorkers(_, _, _)
StartWorkers(st, urls, w) ==
  IF w > NumWorkers THEN st
  ELSE StartWorkers(WorkerSegment(st, urls, w), urls, w + 1)

Min(a, b) == IF a < b THEN a ELSE b
\* The model's cap leaves room for k more checks.
BudgetLeft(k) == stats.totalProcessed + InFlight + k <= MaxLoopChecks

\* The loop awaiting fetchText(SOURCE_URL), line 734.
LoopFetching ==
  [pc |-> "fetch", urls |-> << >>, current |-> 0, claimed |-> << >>,
   src |-> NoFetch]

\* lines 734-759: the fetch of SOURCE_URL resolves.  A failed fetch or an
\* empty list leads to the 5000 ms timer; otherwise the batch starts.
listResolved(resp) ==
  /\ loop.pc = "fetch"
  /\ LET urls == IF resp.ok THEN parseList(resp.text) ELSE << >>
     IN  IF Len(urls) = 0
         THEN /\ loop' = [loop EXCEPT !.pc = "cooldown", !.src = resp]
              /\ UNCHANGED <<storeVars, wk, lastCheck, verdictLog, lastOp>>
         ELSE LET st == StartWorkers([wk |-> wk, current |-> 0,
                                      claimed |-> << >>,
                                      pending |-> urlDatabase.pending],
                                     urls, 1)
              IN  /\ BudgetLeft(Min(Len(urls), NumWorkers))
                  /\ loop' = [pc |-> "running", urls |-> urls,
                              current |-> st.current, claimed |-> st.claimed,
                              src |-> resp]
                  /\ wk' = st.wk
                  /\ urlDatabase' = [urlDatabase EXCEPT !.pending = st.pending]
                  /\ lastOp' = [op |-> "checkUrl", before |-> 0, prev |-> ""]
                  /\ UNCHANGED <<successDetails, processingHistory, stats,
                                 lastCheck, verdictLog>>
  /\ UNCHANGED variantVars

\* Mutant: the loop is left after the cooldown, break for continue.
cooldownDoneBreak ==
  /\ loop.pc = "cooldown"
  /\ loop' = LoopOff
  /\ UNCHANGED <<storeVars, wk, lastCheck, verdictLog, lastOp>>
  /\ UNCHANGED variantVars

\* lines 739-740: the cooldown timer fires; continue re-fetches the list.
cooldownDone ==
  /\ loop.pc = "cooldown"
  /\ loop' = LoopFetching
  /\ UNCHANGED <<storeVars, wk, lastCheck, verdictLog, lastOp>>
  /\ UNCHANGED variantVars

\* lines 749-753: hitUrl has returned to worker w, which goes round its loop.
workerNext(w) ==
  /\ wk[w].pc = "returned"
  /\ LET st == WorkerSegment([wk |-> wk, current |-> loop.current,
                              claimed |-> loop.claimed,
                              pending |-> urlDatabase.pending],
                             loop.urls, w)
     IN  /\ st.wk[w].pc = "direct" => BudgetLeft(1)
         /\ loop' = [loop EXCEPT !.current = st.current, !.claimed = st.claimed]
         /\ wk' = st.wk
         /\ urlDatabase' = [urlDatabase EXCEPT !.pending = st.pending]
         /\ lastOp' = IF st.wk[w].pc = "direct"
                      THEN [op |-> "checkUrl", before |-> 0, prev |-> ""]
                      ELSE lastOp
         /\ UNCHANGED <<successDetails, processingHistory, stats, lastCheck,
                        verdictLog>>
  /\ UNCHANGED variantVars

\* Mutant: the loop waits for the first worker to finish, Promise.race(pool).
batchDoneOnFirstExit ==
  /\ loop.pc = "running"
  /\ \E w \in Workers : wk[w] = Idle
  /\ loop' = [loop EXCEPT !.pc = "pause"]
  /\ UNCHANGED <<storeVars, wk, lastCheck, verdictLog, lastOp>>
  /\ UNCHANGED variantVars

\* line 761: Promise.all(pool) resolves once every worker has returned; the
\* 1000 ms timer is started.
batchDone ==
  /\ loop.pc = "running"
  /\ \A w \in Workers : wk[w] = Idle
  /\ loop' = [loop EXCEPT !.pc = "pause"]
  /\ UNCHANGED <<storeVars, wk, lastCheck, verdictLog, lastOp>>
  /\ UNCHANGED variantVars

\* line 764: the pause timer fires and the while loop re-fetches the list.
pauseDone ==
  /\ loop.pc = "pause"
  /\ loop' = LoopFetching
  /\ UNCHANGED <<storeVars, wk, lastCheck, verdictLog, lastOp>>
  /\ UNCHANGED variantVars

\* line 961: mainLoop() has been called and awaits the first list.
InitLoop ==
  /\ urlDatabase = EmptyDatabase
  /\ successDetails = << >>
  /\ processingHistory = << >>
  /\ stats = ZeroStats
  /\ wk = [w \in Workers |-> Idle]
  /\ lastCheck = NoCheck
  /\ verdictLog = << >>
  /\ lastOp = [op |-> "none", before |-> 0, prev |-> ""]
  /\ loop = LoopFetching
  /\ v1 = EmptyStore1
  /\ results = << >>

\* The scheduler with its workers, the fetches resolving in any order, and
\* POST /api/reset between any two segments.  fetchText catches every error
\* of a request (lines 490-509) and nothing else in the try block throws, so
\* the catch of lines 766-769 is never entered.
NextLoop ==
  \/ \E r \in SourceResponses : listResolved(r)
  \/ cooldownDone
  \/ \E w \in Workers, r \in StoreResponses : directResolved(w, r)
  \/ \E w \in Workers, r \in StoreResponses : proxyResolved(w, r)
  \/ \E w \in Workers : workerNext(w)
  \/ batchDone
  \/ pauseDone
  \/ resetDatabase

SpecLoop == InitLoop /\ [][NextLoop]_vars

\* SpecLoop with the scheduling the run time gives.  Every request carries a
\* 20000 ms timeout (line 494), so each fetch resolves; timers fire; a
\* resolved promise's continuation is run.  The last conjunct belongs to the
\* model alone: when MaxLoopChecks leaves no room for a batch, a reset makes
\* room, so that the cap never holds the loop up.
LoopFairness ==
  /\ WF_vars(\E r \in SourceResponses : listResolved(r))
  /\ WF_vars(cooldownDone)
  /\ WF_vars(batchDone)
  /\ WF_vars(pauseDone)
  /\ \A w \in Workers :
       /\ WF_vars(\E r \in StoreResponses : directResolved(w, r))
       /\ WF_vars(\E r \in StoreResponses : proxyResolved(w, r))
       /\ WF_vars(workerNext(w))
  /\ WF_vars(~BudgetLeft(NumWorkers) /\ resetDatabase)

SpecLive == SpecLoop /\ LoopFairness

\* ------------------------------------------- the three-set version
\* Lines 1-414 of the file: the store keeps the sets direct, proxy and
\* failed.  Its workers are those of wk; v1 holds its store.
\* lines 108-125: the switch on status, then pending.delete.
Categories1After(db, url, status) ==
  [all     |-> AllAfter(db.all, url),
   direct  |-> IF status = "direct" THEN db.direct \cup {url}
               ELSE IF status = "proxy" THEN db.direct \ {url}
               ELSE db.direct,
   proxy   |-> IF status = "direct" THEN db.proxy \ {url}
               ELSE IF status = "proxy" THEN db.proxy \cup {url}
               ELSE db.proxy,
   failed  |-> IF status \in {"direct", "proxy"} THEN db.failed \ {url}
               ELSE IF status = "failed" THEN db.failed \cup {url}
               ELSE db.failed,
   pending |-> db.pending \ {url}]

\* lines 102-103, 112-121, 143-145: the counters; successRate is always the
\* string toFixed(2) returns.
Stats1After(st, db, url, status) ==
  LET d == IF status = "direct" THEN st.directSuccess + 1 ELSE st.directSuccess
      p == IF status = "proxy" THEN st.proxySuccess + 1 ELSE st.proxySuccess
  IN  [totalProcessed |-> st.totalProcessed + 1,
       directSuccess  |-> d,
       proxySuccess   |-> p,
       failed         |-> IF status = "failed" THEN st.failed + 1 ELSE st.failed,
       uniqueUrls     |-> IF url \in Range(db.all) THEN st.uniqueUrls
                          ELSE Len(AllAfter(db.all, url)),
       successRate    |-> toFixed2(d + p, st.totalProcessed + 1)]

\* addToDatabase(url, status, details) of lines 96-146, on the store s.
Store1After(s, url, status, details) ==
  [urlDatabase       |-> Categories1After(s.urlDatabase, url, status),
   processingHistory |->
     HistoryAfter(s.processingHistory,
                  [url |-> url, status |-> status, details |-> details,
                   category |-> status]),
   stats             |-> Stats1After(s.stats, s.urlDatabase, url, status)]

\* lines 201-231: the status and details hitUrl records.  A field of
\* errorDetails that is not set is Undefined (an error) or FALSE (a flag).
Verdict1Args(direct, proxied) ==
  IF JsonOk(direct)
  THEN [status |-> "direct",
        details |-> [method |-> "direct", responseSize |-> Len(direct.text.v)]]
  ELSE IF JsonOk(proxied)
  THEN [status |-> "proxy",
        details |-> [method |-> "proxy", responseSize |-> Len(proxied.text.v)]]
  ELSE [status |-> "failed",
        details |->
          [directError   |-> IF ~direct.ok THEN direct.error ELSE Undefined,
           proxyError    |-> IF ~proxied.ok THEN proxied.error ELSE Undefined,
           directCaptcha |-> Truthy(direct.text) /\ captchaOf[direct.text],
           proxyCaptcha  |-> Truthy(proxied.text) /\ captchaOf[proxied.text]]]

\* lines 194-198: hitUrl marks the URL pending and starts the direct fetch.
hitUrl1(w, url) ==
  /\ wk[w].pc = "idle"
  /\ \A v \in Workers : v < w => wk[v].pc # "idle"
  /\ v1.stats.totalProcessed + InFlight < MaxChecks
  /\ v1' = [v1 EXCEPT !.urlDatabase.pending = @ \cup {url}]
  /\ wk' = [wk EXCEPT ![w] = Checking(url)]
  /\ UNCHANGED <<storeVars, lastCheck, verdictLog, lastOp, loop, results>>

\* The addToDatabase call of hitUrl and its return.
recordVerdict1(w, direct, proxied) ==
  LET a == Verdict1Args(direct, proxied)
  IN  /\ v1' = Store1After(v1, wk[w].url, a.status, a.details)
      /\ wk' = [wk EXCEPT ![w] = Idle]
      /\ UNCHANGED <<storeVars, lastCheck, verdictLog, lastOp, loop, results>>

\* lines 198-211: the direct fetch resolves.
directResolved1(w, resp) ==
  /\ wk[w].pc = "direct"
  /\ IF JsonOk(resp)
     THEN recordVerdict1(w, resp, NoFetch)
     ELSE /\ wk' = [wk EXCEPT ![w] = [@ EXCEPT !.pc = "proxy", !.direct = resp]]
          /\ UNCHANGED <<storeVars, lastCheck, verdictLog, lastOp, loop, v1,
                         results>>

\* lines 211-232: the proxied fetch resolves.
proxyResolved1(w, resp) ==
  /\ wk[w].pc = "proxy"
  /\ recordVerdict1(w, wk[w].direct, resp)

\* lines 170-191, called by POST /api/reset (line 388).
resetDatabase1 ==
  /\ v1' = EmptyStore1
  /\ UNCHANGED <<storeVars, wk, lastCheck, verdictLog, lastOp, loop, results>>

Next1 ==
  \/ \E w \in Workers, u \in URLS : hitUrl1(w, u)
  \/ \E w \in Workers, r \in StoreResponses : directResolved1(w, r)
  \/ \E w \in Workers, r \in StoreResponses : proxyResolved1(w, r)
  \/ resetDatabase1

Spec1 == Init /\ [][Next1]_vars

\* ----------------------------------------- the results-array version
\* Lines 963-1158 of the file: hitUrl logs to the array results.
\* Cap of the model on the log; the program's MAX_RESULTS is 1000 (line 982).
MAX_RESULTS == 2
\* hitUrl calls are started while the log and the calls in flight stay
\* below this many entries.
MaxResultsLen == 4

\* lines 1045-1050, 1060-1065, 1068-1073: the entry of an outcome.
ResultEntry(url, direct, proxied) ==
  IF JsonOk(direct)
  THEN [url |-> url, status |-> "direct", message |-> "Direct OK - JSON"]
  ELSE IF JsonOk(proxied)
  THEN [url |-> url, status |-> "proxy", message |-> "Proxy OK - JSON"]
  ELSE [url |-> url, status |-> "failed", message |-> "Failed - Not JSON"]

\* lines 1076-1079: keep only the first MAX_RESULTS entries.
Truncated(log) ==
  IF Len(log) > MAX_RESULTS THEN SubSeq(log, 1, MAX_RESULTS) ELSE log

\* lines 1038-1040: hitUrl starts the direct fetch.
hitUrl3(w, url) ==
  /\ wk[w].pc = "idle"
  /\ \A v \in Workers : v < w => wk[v].pc # "idle"
  /\ Len(results) + InFlight < MaxResultsLen
  /\ wk' = [wk EXCEPT ![w] = Checking(url)]
  /\ UNCHANGED <<storeVars, lastCheck, verdictLog, lastOp, loop, v1, results>>

\* lines 1040-1054: the direct fetch resolves; a direct success is logged
\* and hitUrl returns at line 1051.
directResolved3(w, resp) ==
  /\ wk[w].pc = "direct"
  /\ IF JsonOk(resp)
     THEN /\ results' = <<ResultEntry(wk[w].url, resp, NoFetch)>> \o results
          /\ wk' = [wk EXCEPT ![w] = Idle]
     ELSE /\ wk' = [wk EXCEPT ![w] = [@ EXCEPT !.pc = "proxy", !.direct = resp]]
          /\ UNCHANGED results
  /\ UNCHANGED <<storeVars, lastCheck, verdictLog, lastOp, loop, v1>>

\* lines 1054-1080: the proxied fetch resolves; the outcome is logged and
\* the log is cut to MAX_RESULTS.
proxyResolved3(w, resp) ==
  /\ wk[w].pc = "proxy"
  /\ results' =
       Truncated(<<ResultEntry(wk[w].url, wk[w].direct, resp)>> \o results)
  /\ wk' = [wk EXCEPT ![w] = Idle]
  /\ UNCHANGED <<storeVars, lastCheck, verdictLog, lastOp, loop, v1>>

Next3 ==
  \/ \E w \in Workers, u \in URLS : hitUrl3(w, u)
  \/ \E w \in Workers, r \in StoreResponses : directResolved3(w, r)
  \/ \E w \in Workers, r \in StoreResponses : proxyResolved3(w, r)

Spec3 == Init /\ [][Next3]_vars

\* ================================================================ claims
\* Number of verdicts since the last reset that satisfy P.
CountLog(P(_)) == Cardinality({i \in 1..Len(verdictLog) : P(verdictLog[i])})
\* Some URL has been recorded twice since the last reset, first with status
\* `was` and later with status `now`.
Rerecorded(was, now) ==
  \E i, j \in 1..Len(verdictLog) :
    /\ i < j
    /\ verdictLog[i].url = verdictLog[j].url
    /\ verdictLog[i].status = now
    /\ verdictLog[j].status = was
    /\ \A k \in 1..(i - 1) : verdictLog[k].url # verdictLog[i].url
SuccessWith(method) ==
  {u \in urlDatabase.success :
     u \in DOMAIN successDetails /\ successDetails[u].method = method}

\* C1: no URL is in both urlDatabase.success and urlDatabase.failed, after
\* any sequence of addToDatabase and resetDatabase calls.
C1_SuccessFailedDisjoint ==
  urlDatabase.success \cap urlDatabase.failed = {}

\* C1's case: a URL recorded as failed and later as success (and the reverse).
C1_Witness ==
  /\ Rerecorded("failed", "success")
  /\ Rerecorded("success", "failed")

\* C2: a URL has a successDetails entry iff it is in urlDatabase.success.
C2_DetailIffSuccess ==
  DOMAIN successDetails = urlDatabase.success

\* C2's case: a URL that succeeded failed its re-check, so its entry went,
\* while another URL still holds one.
C2_Witness ==
  /\ Rerecorded("success", "failed")
  /\ urlDatabase.success # {}
  /\ urlDatabase.failed # {}

\* C3 as stated: the counters equal a full recount of the sets.
C3_StatsEqualRecount ==
  /\ stats.success = Cardinality(urlDatabase.success)
  /\ stats.failed = Cardinality(urlDatabase.failed)
  /\ stats.directSuccess = Cardinality(SuccessWith("direct"))
  /\ stats.proxySuccess = Cardinality(SuccessWith("proxy"))
  /\ stats.uniqueUrls = Len(urlDatabase.all)

IsSuccess(e) == e.status = "success"
IsFailed(e) == e.status = "failed"
IsDirect(e) == e.status = "success" /\ e.method = "direct"
IsProxy(e) == e.status = "success" /\ e.method = "proxy"
EachUrlOnce ==
  \A i, j \in 1..Len(verdictLog) :
    verdictLog[i].url = verdictLog[j].url => i = j

\* C3 amended: stats.uniqueUrls equals the size of all-URLs; the four
\* category counters count the verdicts recorded since the last reset, so
\* each is at least the recount of its set, and equals it when no URL has
\* been recorded more than once.
C3_StatsCountVerdicts ==
  /\ stats.uniqueUrls = Len(urlDatabase.all)
  /\ stats.success = CountLog(IsSuccess)
  /\ stats.failed = CountLog(IsFailed)
  /\ stats.directSuccess = CountLog(IsDirect)
  /\ stats.proxySuccess = CountLog(IsProxy)
  /\ stats.success >= Cardinality(urlDatabase.success)
  /\ stats.failed >= Cardinality(urlDatabase.failed)
  /\ stats.directSuccess >= Cardinality(SuccessWith("direct"))
  /\ stats.proxySuccess >= Cardinality(SuccessWith("proxy"))
  /\ EachUrlOnce => C3_StatsEqualRecount

\* C3's case: a re-check has been recorded and the counters have left the
\* recount behind.
C3_Witness ==
  /\ ~EachUrlOnce
  /\ stats.success > Cardinality(urlDatabase.success)
  /\ stats.directSuccess > Cardinality(SuccessWith("direct"))
  /\ stats.failed > Cardinality(urlDatabase.failed)

\* C4: the history never holds more than MAX_HISTORY entries, and it is the
\* most recent min(n, MAX_HISTORY) of the n verdicts recorded, newest first.
C4_HistoryBounded ==
  /\ Len(processingHistory) <= MAX_HISTORY
  /\ processingHistory =
       SubSeq(verdictLog, 1, Min(Len(verdictLog), MAX_HISTORY))

\* C4's case: more verdicts than the cap, with different oldest and newest.
C4_Witness ==
  /\ Len(verdictLog) > MAX_HISTORY
  /\ verdictLog[Len(verdictLog)] # verdictLog[1]
  /\ verdictLog[Len(verdictLog)] \notin Range(processingHistory)

\* C5: right after resetDatabase all-URLs, the three sets, successDetails
\* and the history are empty, every counter is zero and successRate is the
\* number zero.
C5_ResetYieldsZero ==
  lastOp.op = "resetDatabase" =>
    /\ urlDatabase.all = << >>
    /\ urlDatabase.success = {}
    /\ urlDatabase.failed = {}
    /\ urlDatabase.pending = {}
    /\ DOMAIN successDetails = {}
    /\ processingHistory = << >>
    /\ stats.totalProcessed = 0
    /\ stats.success = 0
    /\ stats.failed = 0
    /\ stats.directSuccess = 0
    /\ stats.proxySuccess = 0
    /\ stats.uniqueUrls = 0
    /\ stats.successRate = NumberZero

\* C5's case: the reset wiped a store that held verdicts, with a check of
\* another worker still in flight.
C5_Witness ==
  /\ lastOp.op = "resetDatabase"
  /\ lastOp.before > 0
  /\ \E w \in Workers : wk[w].pc # "idle"

\* The matching counters of a verdict grow by one over the step.
CountersStep(e) ==
  /\ stats'.totalProcessed = stats.totalProcessed + 1
  /\ stats'.success = stats.success + (IF IsSuccess(e) THEN 1 ELSE 0)
  /\ stats'.failed = stats.failed + (IF IsFailed(e) THEN 1 ELSE 0)
  /\ stats'.directSuccess = stats.directSuccess + (IF IsDirect(e) THEN 1 ELSE 0)
  /\ stats'.proxySuccess = stats.proxySuccess + (IF IsProxy(e) THEN 1 ELSE 0)
\* The history takes the verdict at its front, above what it held.
HistoryStep(e) ==
  /\ Len(processingHistory') = Min(Len(processingHistory) + 1, MAX_HISTORY)
  /\ processingHistory'[1] = e
  /\ \A i \in 2..Len(processingHistory') :
       processingHistory'[i] = processingHistory[i - 1]
\* This step is an addToDatabase call.
IsCall == Len(verdictLog') = Len(verdictLog) + 1
\* ... that repeats the call before it: same URL, status and method.
IsRepeat ==
  /\ IsCall
  /\ lastOp.op = "addToDatabase"
  /\ Len(verdictLog) >= 1
  /\ verdictLog'[1].url = verdictLog[1].url
  /\ verdictLog'[1].status = verdictLog[1].status
  /\ verdictLog'[1].method = verdictLog[1].method

\* C6: every call adds one to totalProcessed and to the counters of its
\* category and puts its entry at the front of the history; a call that
\* repeats the one before it leaves the sets, all-URLs and the method in
\* successDetails as the first call left them.
C6_RepeatIsIdempotent ==
  [][ /\ IsCall => CountersStep(verdictLog'[1]) /\ HistoryStep(verdictLog'[1])
      /\ IsRepeat =>
           /\ urlDatabase' = urlDatabase
           /\ DOMAIN successDetails' = DOMAIN successDetails
           /\ \A u \in DOMAIN successDetails :
                successDetails'[u].method = successDetails[u].method
    ]_vars

\* C6's case: the two newest verdicts are the same call made twice, for the
\* only URL that has a category.
C6_Witness ==
  /\ Len(verdictLog) >= 2
  /\ verdictLog[1] = verdictLog[2]
  /\ stats.totalProcessed >= 2
  /\ Cardinality(urlDatabase.success \cup urlDatabase.failed) = 1

\* A genuine JSON success: ok, not captcha-flagged, valid JSON.
Genuine(resp) == resp.ok /\ ~captchaOf[resp.text] /\ jsonOf[resp.text]
Flagged(resp) == captchaOf[resp.text]
\* A check has been recorded since the last reset; its verdict is the newest.
Recorded == lastCheck.url # ""
Verdict == processingHistory[1]
NotJsonMessage == Str(<<"Not JSON or Captcha">>)
\* The store holds the URL of the newest verdict as that verdict says.
StoredAs(status, method) ==
  /\ Verdict.url = lastCheck.url
  /\ Verdict.status = status
  /\ Verdict.method = method
  /\ IF status = "success"
     THEN /\ lastCheck.url \in urlDatabase.success
          /\ successDetails[lastCheck.url].method = method
     ELSE lastCheck.url \in urlDatabase.failed

\* C7: checkUrl records success/direct exactly when the direct response is a
\* genuine JSON success, success/proxy exactly when the direct one is not
\* and the proxied one is, and failed exactly when neither is.
C7_VerdictFollowsFetches ==
  Recorded =>
    LET d == lastCheck.direct
        p == lastCheck.proxied
    IN  /\ StoredAs("success", "direct") <=> Genuine(d)
        /\ StoredAs("success", "proxy") <=> ~Genuine(d) /\ Genuine(p)
        /\ StoredAs("failed", "null") <=> ~Genuine(d) /\ ~Genuine(p)

\* C7's case: the direct fetch met a challenge page, the proxy returned
\* JSON, and the URL is a proxy success.
C7_Witness ==
  /\ Recorded
  /\ lastCheck.direct = fetchTextOk(BodyHtmlCaptcha)
  /\ lastCheck.proxied = fetchTextOk(BodyJson)
  /\ StoredAs("success", "proxy")

\* C8: a captcha-flagged body never makes its attempt a success, even when it
\* parses as JSON: a flagged direct body always leads to the proxy attempt,
\* and two flagged bodies leave the URL failed.
C8_CaptchaNeverSuccess ==
  /\ \A w \in Workers :
       wk[w].pc = "proxy" => ~Genuine(wk[w].direct)
  /\ Recorded =>
       LET d == lastCheck.direct
           p == lastCheck.proxied
       IN  /\ Flagged(d) => p # NoFetch /\ ~StoredAs("success", "direct")
           /\ Flagged(p) => ~StoredAs("success", "proxy")
           /\ Flagged(d) /\ Flagged(p) => StoredAs("failed", "null")

\* C8's case: both bodies are valid JSON carrying a captcha marker.
C8_Witness ==
  /\ Recorded
  /\ lastCheck.direct = fetchTextOk(BodyJsonCaptcha)
  /\ lastCheck.proxied = fetchTextOk(BodyJsonCaptcha)
  /\ isJson(lastCheck.direct.text)
  /\ StoredAs("failed", "null")

\* C9: when both fetches fail at the transport level the URL is recorded as
\* failed, directError and proxyError are the messages of their own fetch,
\* and both captcha flags are false.
C9_TransportErrorsKept ==
  Recorded /\ ~lastCheck.direct.ok /\ ~lastCheck.proxied.ok =>
    /\ StoredAs("failed", "null")
    /\ Verdict.details.directError = lastCheck.direct.error
    /\ Verdict.details.proxyError = lastCheck.proxied.error
    /\ Verdict.details.directError.kind = "string"
    /\ Verdict.details.proxyError.kind = "string"
    /\ Verdict.details.directCaptcha = FALSE
    /\ Verdict.details.proxyCaptcha = FALSE

\* C9's case: the two fetches failed with different messages.
C9_Witness ==
  /\ Recorded
  /\ lastCheck.direct = fetchTextErr(ErrTimeout)
  /\ lastCheck.proxied = fetchTextErr(ErrRefused)
  /\ Verdict.status = "failed"

\* A completed fetch whose body is neither valid JSON nor captcha-flagged.
PlainBody(resp) == resp.ok /\ ~jsonOf[resp.text] /\ ~captchaOf[resp.text]

\* C10 as stated: for every such pair of bodies the URL is failed with both
\* error fields a non-empty "not JSON" indication and both flags false.
C10_NotJsonForEveryBody ==
  Recorded /\ PlainBody(lastCheck.direct) /\ PlainBody(lastCheck.proxied) =>
    /\ StoredAs("failed", "null")
    /\ Verdict.details.directError = NotJsonMessage
    /\ Verdict.details.proxyError = NotJsonMessage
    /\ Verdict.details.directCaptcha = FALSE
    /\ Verdict.details.proxyCaptcha = FALSE

\* C10 amended: the URL is failed with both flags false; the error field of
\* a fetch is the "not JSON" indication when its body is not empty, and null
\* when its body is the empty string.
C10_NotJsonUnlessEmpty ==
  Recorded /\ PlainBody(lastCheck.direct) /\ PlainBody(lastCheck.proxied) =>
    /\ StoredAs("failed", "null")
    /\ Verdict.details.directError =
         IF lastCheck.direct.text.v # << >> THEN NotJsonMessage ELSE Null
    /\ Verdict.details.proxyError =
         IF lastCheck.proxied.text.v # << >> THEN NotJsonMessage ELSE Null
    /\ Verdict.details.directCaptcha = FALSE
    /\ Verdict.details.proxyCaptcha = FALSE

\* C10's case: plain text from the direct fetch, an empty body from the proxy.
C10_Witness ==
  /\ Recorded
  /\ lastCheck.direct = fetchTextOk(BodyPlain)
  /\ lastCheck.proxied = fetchTextOk(BodyEmpty)
  /\ Verdict.details.directError = NotJsonMessage
  /\ Verdict.details.proxyError = Null

\* --------------------------------------------------------------- C15
\* Some verdict for u has been recorded since the last reset, and the most
\* recent of them (verdictLog is newest first).
HasVerdict(u) == \E i \in 1..Len(verdictLog) : verdictLog[i].url = u
LatestFor(u) ==
  verdictLog[CHOOSE i \in 1..Len(verdictLog) :
               /\ verdictLog[i].url = u
               /\ \A k \in 1..(i - 1) : verdictLog[k].url # u]

\* C15: last verdict wins.  After any sequence of verdicts since the last
\* reset, a URL is in success or failed exactly as its most recently recorded
\* verdict says, a success carries the method of that verdict in
\* successDetails, and a URL without a verdict is in neither set; this holds
\* whatever the order in which concurrent checks started and completed.
C15_LastVerdictWins ==
  \A u \in URLS :
    IF HasVerdict(u)
    THEN LET e == LatestFor(u)
         IN  /\ u \in urlDatabase.success <=> e.status = "success"
             /\ u \in urlDatabase.failed <=> e.status = "failed"
             /\ e.status = "success" =>
                  /\ u \in DOMAIN successDetails
                  /\ successDetails[u].method = e.method
    ELSE u \notin urlDatabase.success \cup urlDatabase.failed

\* C15's case: two checks of one URL were in flight together (no check was
\* started between their verdicts); the first to complete recorded a direct
\* success, the second a proxy success, and the store holds the second.
C15_Witness ==
  /\ Len(verdictLog) >= 2
  /\ lastOp.op = "addToDatabase"
  /\ lastOp.prev = "addToDatabase"
  /\ verdictLog[1].url = verdictLog[2].url
  /\ IsDirect(verdictLog[2])
  /\ IsProxy(verdictLog[1])
  /\ successDetails[verdictLog[1].url].method = "proxy"


\* --------------------------------------------------------------- C17
\* The URLs of the verdicts since the last reset, each once, in the order of
\* their first verdict (verdictLog is newest first).
RECURSIVE FirstSeen(_)
FirstSeen(log) ==
  IF log = << >> THEN << >>
  ELSE LET older == FirstSeen(Tail(log))
       IN  IF Head(log).url \in Range(older) THEN older
           ELSE Append(older, Head(log).url)
\* This step is a resetDatabase call.
IsReset == lastOp' # lastOp /\ lastOp'.op = "resetDatabase"
\* all-URLs keeps what it held, in place, over the step.
AllKept ==
  /\ Len(urlDatabase'.all) >= Len(urlDatabase.all)
  /\ SubSeq(urlDatabase'.all, 1, Len(urlDatabase.all)) = urlDatabase.all
NoDuplicate(all) == \A i, j \in 1..Len(all) : all[i] = all[j] => i = j

\* C17: urlDatabase.all holds no URL twice, lists the URLs in the order of
\* their first insertion, and stats.uniqueUrls is its length, in every
\* state; no step other than a resetDatabase call removes or moves an entry,
\* and that call empties it.
C17_AllUrlsOrdered ==
  /\ [](/\ NoDuplicate(urlDatabase.all)
        /\ urlDatabase.all = FirstSeen(verdictLog)
        /\ stats.uniqueUrls = Len(urlDatabase.all))
  /\ [][ /\ ~IsReset => AllKept
         /\ IsReset => urlDatabase'.all = << >> ]_vars

\* C17's case: b was recorded before a and again after it, and all-URLs
\* still lists b first.
C17_Witness ==
  /\ Len(verdictLog) >= 3
  /\ verdictLog[1].url = "http://b.test"
  /\ verdictLog[2].url = "http://a.test"
  /\ urlDatabase.all = <<"http://b.test", "http://a.test">>
  /\ stats.uniqueUrls = 2


\* --------------------------------------------------------------- C16
\* Worker w is inside checkUrl, waiting for a fetch.
InCheck(w) == wk[w].pc \in {"direct", "proxy"}

\* C16: a reset leaves the checks in flight as they are; a check leaves
\* checkUrl only by recording the verdict for its URL, and the verdict lands
\* in the store as it is then: the URL is in all-URLs and in the set of its
\* status, and the counters count it.  In every state success and failed are
\* disjoint, successDetails has an entry exactly for the members of success,
\* and stats.uniqueUrls is the length of all-URLs.
C16_ResetKeepsChecks ==
  /\ [](/\ urlDatabase.success \cap urlDatabase.failed = {}
        /\ DOMAIN successDetails = urlDatabase.success
        /\ stats.uniqueUrls = Len(urlDatabase.all))
  /\ [][ /\ IsReset => wk' = wk
         /\ \A w \in Workers :
              InCheck(w) /\ wk'[w].pc \notin {"direct", "proxy"} =>
                IsCall /\ verdictLog'[1].url = wk[w].url
         /\ IsCall =>
              LET e == verdictLog'[1]
              IN  /\ e.url \in Range(urlDatabase'.all)
                  /\ IsSuccess(e) => e.url \in urlDatabase'.success
                  /\ IsFailed(e) => e.url \in urlDatabase'.failed
                  /\ CountersStep(e) ]_vars

\* C16's case: a verdict recorded right after a reset, by a check that was
\* in flight when the reset ran; it is the only content of the fresh store.
C16_Witness ==
  /\ lastOp.op = "addToDatabase"
  /\ lastOp.prev = "resetDatabase"
  /\ urlDatabase.all = <<verdictLog[1].url>>
  /\ urlDatabase.success = {verdictLog[1].url}
  /\ stats.totalProcessed = 1
  /\ stats.success = 1
  /\ stats.uniqueUrls = 1

\* --------------------------------------------------------------- C18
\* Some check of u is in flight.
InFlightOn(u) == \E w \in Workers : InCheck(w) /\ wk[w].url = u

\* C18 as stated: pending shares no URL with success or failed.
C18_PendingDisjoint ==
  urlDatabase.pending \cap (urlDatabase.success \cup urlDatabase.failed) = {}

\* C18 amended: a URL is in pending and in success or failed only while a
\* re-check of it is in flight (it keeps its earlier verdict until the
\* re-check records its own), and the step that records a verdict leaves the
\* URL out of pending and in success or failed.
C18_PendingOverlapsOnRecheck ==
  /\ [](\A u \in urlDatabase.pending \cap
                   (urlDatabase.success \cup urlDatabase.failed) :
          InFlightOn(u) /\ HasVerdict(u))
  /\ [][ IsCall =>
           /\ verdictLog'[1].url \notin urlDatabase'.pending
           /\ verdictLog'[1].url \in
                urlDatabase'.success \cup urlDatabase'.failed ]_vars

\* C18's case: a URL with a success verdict is being checked again.
C18_Witness ==
  \E u \in urlDatabase.pending \cap urlDatabase.success :
    InFlightOn(u) /\ HasVerdict(u)

\* --------------------------------------------------------------- C19
\* C19 as stated: pending, success and failed are within all-URLs.
C19_MembersInAll ==
  urlDatabase.pending \cup urlDatabase.success \cup urlDatabase.failed
    \subseteq Range(urlDatabase.all)

\* C19 amended: success and failed are within all-URLs, and all-URLs holds
\* exactly the URLs with a verdict since the last reset: a URL enters it when
\* its first verdict is recorded, and the step that marks a URL pending
\* leaves all-URLs as it is.
C19_VerdictsInAll ==
  /\ [](/\ urlDatabase.success \cup urlDatabase.failed
             \subseteq Range(urlDatabase.all)
        /\ Range(urlDatabase.all) = {u \in URLS : HasVerdict(u)})
  /\ [][ /\ IsCall => verdictLog'[1].url \in Range(urlDatabase'.all)
         /\ ~IsCall /\ ~IsReset => urlDatabase'.all = urlDatabase.all ]_vars

\* C19's case: a URL first seen is pending, being checked, and not in
\* all-URLs, which holds another URL by then.
C19_Witness ==
  /\ Len(urlDatabase.all) >= 1
  /\ \E u \in urlDatabase.pending :
       InFlightOn(u) /\ u \notin Range(urlDatabase.all)

\* --------------------------------------------------------------- C20
\* C20 as stated: a URL is in pending exactly while a check of it is in
\* flight.
C20_PendingIffInFlight ==
  \A u \in URLS : u \in urlDatabase.pending <=> InFlightOn(u)


\* --------------------------------------------------------------- C11
\* List responses that carry no URL: a failed fetch, an empty body, a body
\* of blank lines.
NoUrlResponses ==
  {fetchTextErr(ErrTimeout), fetchTextOk(BodyEmpty), fetchTextOk(ListBlank)}
\* The step leaves the store and the workers as they are and starts no check.
SchedulerOnly ==
  /\ storeVars' = storeVars
  /\ wk' = wk
  /\ verdictLog' = verdictLog
  /\ lastOp' = lastOp

\* C11: when the fetch of the list fails or the list has no URL, the
\* scheduler's step goes to the cooldown, starting no worker and no checkUrl
\* call and leaving sets, details, history and statistics unchanged; during
\* the cooldown no worker runs and no position is claimed; and the
\* scheduler's next step re-fetches the list, again touching nothing else.
C11_EmptyListCoolsDown ==
  /\ [](loop.pc = "cooldown" =>
          /\ loop.src \in NoUrlResponses
          /\ loop.claimed = << >>
          /\ \A w \in Workers : wk[w] = Idle)
  /\ [][ /\ loop.pc = "fetch" /\ loop'.src \in NoUrlResponses =>
              loop'.pc = "cooldown" /\ SchedulerOnly
         /\ loop.pc = "cooldown" /\ loop' # loop =>
              loop'.pc = "fetch" /\ SchedulerOnly ]_vars

\* C11's case: a list of blank lines arrived while the store held verdicts,
\* and the loop is in its cooldown.
C11_Witness ==
  /\ loop.pc = "cooldown"
  /\ loop.src = fetchTextOk(ListBlank)
  /\ stats.totalProcessed >= 2
  /\ urlDatabase.success # {}

\* --------------------------------------------------------------- C12
AllExited == \A w \in Workers : wk[w] = Idle
\* The workers that enter checkUrl in this step.
Entering == {w \in Workers : wk'[w].pc = "direct" /\ wk[w].pc # "direct"}

\* C12: in a batch the positions are claimed in cursor order, each by one
\* worker and none twice or skipped; the claims made are the first
\* min(current, N) positions; each claim is one checkUrl call on the URL at
\* that position; when every worker has exited all N positions have been
\* claimed; and the cursor never decreases within the batch.
C12_EachPositionOnce ==
  /\ [](loop.pc \in {"running", "pause"} =>
          /\ \A i \in 1..Len(loop.claimed) : loop.claimed[i].pos = i - 1
          /\ Len(loop.claimed) = Min(loop.current, Len(loop.urls))
          /\ \A w \in Workers :
               InCheck(w) =>
                 \E i \in 1..Len(loop.claimed) :
                   /\ loop.claimed[i].by = w
                   /\ loop.urls[loop.claimed[i].pos + 1] = wk[w].url
                   /\ \A j \in (i + 1)..Len(loop.claimed) : loop.claimed[j].by # w
          /\ AllExited => Len(loop.claimed) = Len(loop.urls))
  /\ [][ loop'.pc = "running" =>
           /\ loop.pc = "running" => loop'.current >= loop.current
           /\ Cardinality(Entering) =
                Len(loop'.claimed) -
                  (IF loop.pc = "running" THEN Len(loop.claimed) ELSE 0) ]_vars

\* C12's case: a batch of three URLs is complete; the second worker claimed
\* two positions while the first was busy with position 0.
C12_Witness ==
  /\ loop.pc = "pause"
  /\ Len(loop.urls) = 3
  /\ loop.claimed = <<[pos |-> 0, by |-> 1], [pos |-> 1, by |-> 2],
                      [pos |-> 2, by |-> 2]>>
  /\ loop.current > 3

\* --------------------------------------------------------------- C13
\* C13: outside a batch no worker is alive and no check is in flight; the
\* step that starts the next fetch of the list is taken with every worker
\* exited; and a check in flight is one of the current batch's claims.
C13_BatchesDoNotOverlap ==
  /\ [](loop.pc \in {"fetch", "cooldown", "pause"} => AllExited)
  /\ [](\A w \in Workers :
          InCheck(w) =>
            \E i \in 1..Len(loop.claimed) :
              /\ loop.claimed[i].by = w
              /\ loop.urls[loop.claimed[i].pos + 1] = wk[w].url)
  /\ [][ loop'.pc = "fetch" /\ loop.pc # "fetch" =>
           AllExited /\ wk' = wk ]_vars

\* C13's case: the second batch has just started, both workers checking,
\* while the store holds the verdict of the one-URL batch before it.
C13_Witness ==
  /\ loop.pc = "running"
  /\ loop.urls = <<ListUrlA, ListUrlB, ListUrlA>>
  /\ loop.current = NumWorkers
  /\ \A w \in Workers : InCheck(w)
  /\ Len(verdictLog) = 1
  /\ verdictLog[1].url = ListUrlB

\* --------------------------------------------------------------- C14
\* C14: with every fetch resolving, the loop goes on for ever: it awaits the
\* list infinitely often, every batch that starts completes, and every
\* cooldown and pause ends, whatever the fetches return.
C14_LoopNeverStops ==
  /\ []<>(loop.pc = "fetch")
  /\ (loop.pc = "running") ~> (loop.pc = "pause")
  /\ (loop.pc \in {"cooldown", "pause"}) ~> (loop.pc = "fetch")

\* C14's case: the loop awaits the list again after batches whose checks
\* failed and succeeded.
C14_Witness ==
  /\ loop.pc = "fetch"
  /\ Len(verdictLog) >= 3
  /\ \E i \in 1..Len(verdictLog) : IsFailed(verdictLog[i])
  /\ \E i \in 1..Len(verdictLog) : IsSuccess(verdictLog[i])


\* --------------------------------------------------------------- C21
\* Worker w returns from checkUrl in this step.
Returns(w) == InCheck(w) /\ wk'[w].pc \notin {"direct", "proxy"}

\* C21: a checkUrl invocation returns only in a step that makes one
\* addToDatabase call for its URL; every addToDatabase call is made by
\* exactly one invocation, which returns in that step, so none records
\* twice; and with every fetch resolving each invocation does return, on the
\* direct-success, the proxy-success and the failed path alike.
C21_OneVerdictPerCheck ==
  /\ [][ /\ \A w \in Workers :
              Returns(w) =>
                /\ IsCall
                /\ verdictLog'[1].url = wk[w].url
                /\ stats'.totalProcessed = stats.totalProcessed + 1
         /\ IsCall =>
              /\ Cardinality({w \in Workers : Returns(w)}) = 1
              /\ \A w \in Workers : ~Returns(w) /\ InCheck(w) => wk'[w] = wk[w]
       ]_vars
  /\ \A w \in Workers : InCheck(w) ~> (wk[w].pc = "returned")

\* C21's case: a batch of three checks has ended, one on each path, with
\* three verdicts recorded.
C21_Witness ==
  /\ loop.pc = "pause"
  /\ Len(loop.claimed) = 3
  /\ Len(verdictLog) = 3
  /\ stats.totalProcessed = 3
  /\ \E i \in 1..3 : IsDirect(verdictLog[i])
  /\ \E i \in 1..3 : IsProxy(verdictLog[i])
  /\ \E i \in 1..3 : IsFailed(verdictLog[i])


\* --------------------------------------------------------------- C22
\* C22: the step that records a verdict puts the entry of the check that
\* completes in it at index 0 and moves every entry already there one place
\* back, whichever worker claimed its URL first; so of two verdicts the one
\* recorded later is nearer the front, and index 0 always holds the most
\* recently recorded verdict.
C22_HistoryByCompletion ==
  /\ [](Len(verdictLog) > 0 =>
          /\ Len(processingHistory) > 0
          /\ processingHistory[1] = verdictLog[1])
  /\ [][ IsCall =>
           /\ \E w \in Workers :
                Returns(w) /\ processingHistory'[1].url = wk[w].url
           /\ \A i \in 2..Len(processingHistory') :
                processingHistory'[i] = processingHistory[i - 1] ]_vars

\* C22's case: worker 1 claimed position 0 (a) and worker 2 position 1 (b);
\* b's verdict was recorded first, a's second while worker 2 was checking
\* position 2, and the history holds a's entry in front of b's.
C22_Witness ==
  /\ loop.pc = "running"
  /\ loop.claimed = <<[pos |-> 0, by |-> 1], [pos |-> 1, by |-> 2],
                      [pos |-> 2, by |-> 2]>>
  /\ InCheck(2)
  /\ ~InCheck(1)
  /\ Len(verdictLog) = 2
  /\ Len(processingHistory) = 2
  /\ processingHistory[1].url = ListUrlA
  /\ processingHistory[2].url = ListUrlB

\* --------------------------------------------------------------- C23
\* C23: in every state totalProcessed is success plus failed, success is
\* directSuccess plus proxySuccess, and totalProcessed is the number of
\* verdicts recorded since the last reset, with the checks of several
\* workers completing in any order.
C23_CountersAddUp ==
  /\ stats.totalProcessed = stats.success + stats.failed
  /\ stats.success = stats.directSuccess + stats.proxySuccess
  /\ stats.totalProcessed = Len(verdictLog)

\* C23's case: two checks in flight together have both been recorded, one a
\* proxy success and one a failure.
C23_Witness ==
  /\ lastOp.op = "addToDatabase"
  /\ lastOp.prev = "addToDatabase"
  /\ stats.totalProcessed = 2
  /\ stats.proxySuccess = 1
  /\ stats.failed = 1


\* --------------------------------------------------------------- C24
\* C24 as stated: in the three-set version a URL is in at most one of the
\* sets direct, proxy and failed.
C24_AtMostOneSet ==
  LET db == v1.urlDatabase
  IN  /\ db.direct \cap db.proxy = {}
      /\ db.direct \cap db.failed = {}
      /\ db.proxy \cap db.failed = {}

\* --------------------------------------------------------------- C25
\* C25 as stated: in the results-array version the log holds at most
\* MAX_RESULTS entries whenever no hitUrl call is in flight.
C25_ResultsBounded ==
  (\A w \in Workers : wk[w].pc = "idle") => Len(results) <= MAX_RESULTS


====
